---------------------------- MODULE Spec2Model ----------------------------
(***************************************************************************)
(* A model of the per-symbol strategy engine (TradingWorker), its          *)
(* supervisor (TradingManager), the gateway wrapper (CreonManager) and the *)
(* position refresh of the main window (MainWindow.refresh_prices_for_code)*)
(* of creon_v9_9.py.                                                       *)
(*                                                                         *)
(* Execution contexts: the main (GUI) thread, which runs start_trading,    *)
(* stop_trading and refresh_prices_for_code one after the other; one       *)
(* worker thread per TradingWorker instance; the market-data callback      *)
(* OnReceived.  A step of the model is one shared-memory-visible step of   *)
(* one context.                                                            *)
(*                                                                         *)
(* What the model leaves out: the widgets and the log, the configuration   *)
(* file, remove_symbol_row, and the calls of refresh_prices_for_code that  *)
(* come from the refresh button and from add_symbol (the ones that follow  *)
(* a worker's trade_signal are modelled).  Prices, amounts and percentages *)
(* are integers; the float comparisons of the trailing stop and of the     *)
(* profit and stop-loss rules are done in exact arithmetic.  Unsubscribe() *)
(* of the gateway is taken to return.                                      *)
(*                                                                         *)
(* Specifications: Spec (the program), FairSpec and LiveSpec (progress of  *)
(* stop_trading and of a stopping worker), RuleSpec (the evaluation of one *)
(* tick over a set of inputs), GatewaySpec (the program and a second       *)
(* subscription of a subscribed code).                                     *)
(***************************************************************************)
EXTENDS Integers, Sequences, FiniteSets, TLC

(***************************************************************************)
(* Bounds of the model.                                                    *)
(***************************************************************************)
\* TradingWorker instances ever constructed
MaxEngines == 2
\* ticks the feed ever delivers
MaxTicks == 3
\* seconds the clock runs past the close of the trading window
MaxAfter == 1
\* ticks the feed delivers in a run that constructs more than one worker
MaxRestartTicks == 1
\* gateway queries (position, quote) that fail with an exception
MaxFaults == 1
\* ticks the feed delivers in a run that starts 5 minutes before the close
MaxEarlyTicks == 2

(***************************************************************************)
(* Program constants.                                                      *)
(***************************************************************************)
\* 09:00 and 15:30 in seconds since midnight
OpenT == 32400
CloseT == 55800
\* seconds between two refresh triggers (minute % 5 == 0)
RefreshEvery == 300
\* the main (GUI) thread; worker threads are 1..MaxEngines
Main == 0

Codes == {"A"}
Engines == 1..MaxEngines
Ctx == {Main} \cup Engines

\* prices a tick or the gateway can carry
Prices == {100, 110}
\* first second of the modelled run: the close of the window, or the
\* refresh trigger before it
StartT == CloseT
EarlyT == CloseT - RefreshEvery

\* the runs explored: one worker under the whole feed and failing queries,
\* or several workers (start, stop, start again) under a short feed, both
\* from the close of the window on; or one worker under a short feed from
\* the refresh trigger before the close up to the close
EarlyRun ==
  [engines |-> 1, ticks |-> MaxEarlyTicks, faults |-> 0,
   start |-> EarlyT, last |-> CloseT + MaxAfter]

Budgets ==
  { [engines |-> 1, ticks |-> MaxTicks, faults |-> MaxFaults,
     start |-> StartT, last |-> CloseT + MaxAfter],
    [engines |-> MaxEngines, ticks |-> MaxRestartTicks, faults |-> 0,
     start |-> StartT, last |-> CloseT + MaxAfter],
    EarlyRun }

\* the runs in which progress is followed (the return of stop_trading, the
\* end of a stopping worker): the run that starts before the close, and
\* several workers that share the gateway while the feed is silent
LiveBudgets ==
  { EarlyRun,
    [engines |-> MaxEngines, ticks |-> 0, faults |-> 0,
     start |-> StartT, last |-> CloseT + MaxAfter] }

(***************************************************************************)
(* Strategy records (the dicts of strategy_data[code]["buy"/"sell"]).      *)
(* strategy: "NDayHigh" = N일고점돌파, "PriceBreakout" = 특정가격돌파,     *)
(* "NDayLow" = N일저점이탈, "ProfitTarget" = 수익률매도, "StopLoss" =      *)
(* 손절매, "PriceBreach" = 특정가격이탈, "TrailingStop" = 트레일링스탑.    *)
(* method: "Percent" = 비중, "Cash" = 금액, "Full" = 전량.                 *)
(* trail_base: "Current" = 현재가, "Average" = 매수평단가, "PrevClose" =   *)
(* 전일종가.  cond_type: "None" = 조건없음, "Volume" = 거래량,             *)
(* "TradeValue" = 거래대금.                                                *)
(***************************************************************************)
Rule(s, p) ==
  [strategy |-> s, param |-> p, cond_type |-> "None", cond_value |-> 0,
   amount |-> 0, method |-> "Full", value |-> 0, trail_base |-> "Current",
   raise_pct |-> 0, trail_pct |-> 0]

BuyRule(s, p, amt) == [Rule(s, p) EXCEPT !.amount = amt]

SellRule(s, p, m, v) == [Rule(s, p) EXCEPT !.method = m, !.value = v]

TrailRule(base, rp, tp, m, v) ==
  [Rule("TrailingStop", 0) EXCEPT !.trail_base = base, !.raise_pct = rp,
                                  !.trail_pct = tp, !.method = m, !.value = v]

Config(b, s, bf, sf) ==
  [buy |-> b, sell |-> s, buy_flag |-> bf, sell_flag |-> sf, on |-> TRUE]

\* the symbols as the run finds them: the SymbolConfig of the row (with
\* its buy_flag / sell_flag boxes) and the position the account holds
Scenarios ==
  { [config |-> Config(<< BuyRule("PriceBreakout", 100, 100),
                          BuyRule("PriceBreakout", 100, 200) >>,
                       << TrailRule("Current", 0, 0, "Percent", 50),
                          TrailRule("Current", 0, 0, "Percent", 100),
                          SellRule("PriceBreach", 100, "Full", 0) >>,
                       FALSE, FALSE),
     position |-> [qty |-> 2, avg |-> 100]],
    [config |-> Config(<< BuyRule("NDayHigh", 1, 200) >>,
                       << SellRule("NDayLow", 1, "Cash", 100),
                          SellRule("StopLoss", 5, "Full", 0) >>,
                       TRUE, TRUE),
     position |-> [qty |-> 0, avg |-> 0]] }

\* the symbol of the run that starts before the close: three TrailingStop
\* rules whose raise_pct and trail_pct are the 0 that cfg.get defaults to,
\* and a rule on the n-day low
EarlyScenarios ==
  { [config |-> Config(<< BuyRule("NDayHigh", 1, 200) >>,
                       << TrailRule("Current", 0, 0, "Percent", 50),
                          TrailRule("Current", 0, 0, "Percent", 100),
                          TrailRule("Current", 0, 0, "Percent", 100),
                          SellRule("NDayLow", 1, "Full", 0) >>,
                       TRUE, TRUE),
     position |-> [qty |-> 2, avg |-> 100]] }

ScenariosOf(b) == IF b.start = EarlyT THEN EarlyScenarios ELSE Scenarios

(***************************************************************************)
(* State.                                                                  *)
(***************************************************************************)
VARIABLES
  budget,                  \* workers, ticks and faults the run is explored with
  now,                     \* wall clock, seconds since midnight
  is_initialized,          \* CreonManager.is_initialized
  com_lock,                \* holders of the module-level com_lock
  sub_lock,                \* holders of CreonManager.sub_lock
  realtime_subscribers,    \* code -> worker whose data_queue receives ticks
  gw,                      \* the account at the broker: code -> position
  feed_seq,                \* ticks delivered so far
  faults,                  \* gateway queries that have failed so far
  trade_signals,           \* trade_signal emissions queued for the main thread
  strategy_data,           \* MainWindow.strategy_data: code -> SymbolConfig
  is_auto_trading_active,  \* TradingManager.is_auto_trading_active
  workers,                 \* TradingManager.workers: code -> worker
  main,                    \* the main thread: where it is and its locals
  tw                       \* the TradingWorker instances

vars == << budget, now, is_initialized, com_lock, sub_lock, realtime_subscribers, gw,
           feed_seq, faults, trade_signals,
                  strategy_data,
           is_auto_trading_active, workers, main, tw >>

NoTick ==
  [seq |-> 0, current_price |-> 0, volume |-> 0, trade_value |-> 0,
   close_price |-> 0]

\* the empty dict
EmptyMap == << >>

\* datetime.now().strftime("%Y%m%d"), as a day number; None is -1
Date(t) == t \div 86400
NoDate == 0 - 1

IdleMain ==
  [pc |-> "idle", call |-> "no", todo |-> << >>, code |-> "A", worker |-> 1,
   res |-> << 0, 0 >>]

\* a TradingWorker that has not been constructed
NoWorker ==
  [pc |-> "none", call |-> "no", code |-> "A",
   buy_enabled |-> TRUE, sell_enabled |-> TRUE,
   stop_event |-> FALSE, data_queue |-> << >>, data |-> NoTick,
   trailing_stop_active |-> FALSE, trailing_peak_price |-> 0,
   trailing_base_price_met |-> FALSE,
   prev_close_price |-> 0, avg_buy_price |-> 0, quantity_held |-> 0,
   nday_high_targets |-> EmptyMap, last_high_refresh_date |-> NoDate,
   nday_low_targets |-> EmptyMap, last_low_refresh_date |-> NoDate,
   idx |-> 0, qty |-> 0, res |-> << 0, 0 >>, ret |-> "loop_top",
   \* history: the flags of the SymbolConfig as start_trading received it
   arg_buy_flag |-> TRUE, arg_sell_flag |-> TRUE,
   \* history: seq of the last tick put on data_queue
   last_put |-> 0,
   \* history of the tick being evaluated: ticks taken and dropped before
   \* it, successful orders, the first satisfied rule, the last rule
   \* examined, the branches entered
   skipped |-> 0, fills |-> 0, first_sat |-> 0, last_eval |-> 0,
   branches |-> {},
   \* history of the tick being evaluated: the trailing-stop transitions
   \* made on it ("base": the base was set, "arm": the stop was armed)
   trail_marks |-> {},
   \* history: passes of refresh_nday_high_targets / _low_targets that got
   \* past the date test; 5 minutes have passed since the last high pass
   high_passes |-> 0, low_passes |-> 0, aged |-> FALSE]

\* TradingWorker.__init__(creon, code, strategies)
NewWorker(c, strategies, given) ==
  [NoWorker EXCEPT !.pc = "created", !.code = c,
                   !.buy_enabled = strategies.buy_flag,
                   !.sell_enabled = strategies.sell_flag,
                   !.arg_buy_flag = given.buy_flag,
                   !.arg_sell_flag = given.sell_flag]

buy_strategies(e) == strategy_data[tw[e].code].buy
sell_strategies(e) == strategy_data[tw[e].code].sell

InitWith(runs) ==
  /\ budget \in runs
  /\ now = budget.start
  /\ is_initialized \in BOOLEAN
  /\ com_lock = {}
  /\ sub_lock = {}
  /\ realtime_subscribers = EmptyMap
  /\ \E sc \in [Codes -> ScenariosOf(budget)] :
       /\ gw = [c \in Codes |-> sc[c].position]
       /\ strategy_data = [c \in Codes |-> sc[c].config]
  /\ feed_seq = 0
  /\ faults = 0
  /\ trade_signals = [c \in Codes |-> 0]
  /\ is_auto_trading_active = FALSE
  /\ workers = EmptyMap
  /\ main = IdleMain
  /\ tw = [e \in Engines |-> NoWorker]

Init == InitWith(Budgets)

(***************************************************************************)
(* Helpers.                                                                *)
(***************************************************************************)
Constructed == { e \in Engines : tw[e].pc # "none" }

\* the worker's run() has returned (or was left by an exception)
Finished(e) == tw[e].pc \in {"stopped", "crashed"}

\* dict with key k set to v / with key k deleted
Put(f, k, v) == [x \in (DOMAIN f) \cup {k} |-> IF x = k THEN v ELSE f[x]]
Del(f, k) == [x \in (DOMAIN f) \ {k} |-> f[x]]

\* the sequences without repetition over a set
RECURSIVE Perms(_)
Perms(S) ==
  IF S = {} THEN { << >> }
  ELSE UNION { { << x >> \o p : p \in Perms(S \ {x}) } : x \in S }

Selections == UNION { Perms(S) : S \in (SUBSET Codes) \ {{}} }

\* the keys of a dict of workers in insertion order (workers are inserted in
\* the order they are constructed)
RECURSIVE InOrder(_, _)
InOrder(f, S) ==
  IF S = {} THEN << >>
  ELSE LET c == CHOOSE x \in S : \A y \in S : f[x] <= f[y]
       IN << c >> \o InOrder(f, S \ {c})

(***************************************************************************)
(* TradingManager.start_trading, on the main thread.                       *)
(***************************************************************************)
\* a variant of FailsFast that only looks at the activity flag
FailsFastWhenActive == is_auto_trading_active

\* lines 1368-1374: the two tests that make start_trading return at once
FailsFast == is_auto_trading_active \/ ~is_initialized

StartTrading(selected_codes) ==
  /\ main.pc = "idle"
  /\ Cardinality(Constructed)
       + Cardinality({ i \in 1..Len(selected_codes) :
                         selected_codes[i] \notin DOMAIN workers })
       <= budget.engines
  /\ IF FailsFast
     THEN /\ main' = [main EXCEPT !.pc = "st_refused"]
          /\ UNCHANGED is_auto_trading_active
     ELSE /\ is_auto_trading_active' = TRUE
          /\ main' = [main EXCEPT !.pc = "st_loop", !.todo = selected_codes]
  /\ UNCHANGED << budget, now, is_initialized, com_lock, sub_lock,
                  realtime_subscribers, gw, feed_seq, faults, trade_signals,
                  strategy_data, workers,
                  tw >>

\* lines 1370 and 1374: the return that follows the warning
StartRefused ==
  /\ main.pc = "st_refused"
  /\ main' = IdleMain
  /\ UNCHANGED << budget, now, is_initialized, com_lock, sub_lock,
                  realtime_subscribers, gw, feed_seq, faults, trade_signals,
                  strategy_data, is_auto_trading_active, workers, tw >>

\* lines 1380-1385 and 1394-1395: the head of the loop over selected_codes
StartLoop ==
  /\ main.pc = "st_loop"
  /\ IF main.todo = << >>
     THEN /\ main' = IdleMain
          /\ UNCHANGED << strategy_data, tw >>
     ELSE LET code == Head(main.todo) IN
          IF code \in DOMAIN workers
          THEN /\ main' = [main EXCEPT !.todo = Tail(main.todo)]
               /\ UNCHANGED << strategy_data, tw >>
          ELSE LET e == CHOOSE x \in Engines : tw[x].pc = "none"
                   strategies_for_code ==
                     [strategy_data[code] EXCEPT !.buy_flag = TRUE,
                                                 !.sell_flag = TRUE]
               IN /\ strategy_data' =
                       [strategy_data EXCEPT ![code] = strategies_for_code]
                  /\ tw' = [tw EXCEPT ![e] =
                       NewWorker(code, strategies_for_code, strategy_data[code])]
                  /\ main' = [main EXCEPT !.pc = "st_sub", !.code = code,
                                          !.worker = e]
  /\ UNCHANGED << budget, now, is_initialized, com_lock, sub_lock,
                  realtime_subscribers, gw, feed_seq, faults, trade_signals,
                  is_auto_trading_active,
                  workers >>

\* CreonManager.subscribe_realtime up to obj.Subscribe(): sub_lock is taken;
\* for a code that is already subscribed the method calls
\* unsubscribe_realtime, which waits for the sub_lock its caller holds
SubscribeEnter ==
  /\ main.pc = "st_sub"
  /\ main.call = "no"
  /\ sub_lock = {}
  /\ sub_lock' = {Main}
  /\ main' = [main EXCEPT !.call =
       IF main.code \in DOMAIN realtime_subscribers THEN "blocked" ELSE "in"]
  /\ UNCHANGED << budget, now, is_initialized, com_lock, realtime_subscribers, gw,
                  feed_seq, faults, trade_signals,
                  strategy_data, is_auto_trading_active, workers,
                  tw >>

\* subscribe_realtime returns (True, or False after an exception), then
\* lines 1392-1393: the worker is recorded and started
SubscribeLeave(ok) ==
  /\ main.pc = "st_sub"
  /\ main.call = "in"
  /\ sub_lock' = {}
  /\ realtime_subscribers' =
       IF ok THEN Put(realtime_subscribers, main.code, main.worker)
       ELSE realtime_subscribers
  /\ workers' = Put(workers, main.code, main.worker)
  /\ tw' = [tw EXCEPT ![main.worker].pc = "run_balance"]
  /\ main' = [main EXCEPT !.pc = "st_loop", !.call = "no",
                          !.todo = Tail(main.todo)]
  /\ UNCHANGED << budget, now, is_initialized, com_lock, gw, feed_seq, faults, trade_signals,
                  strategy_data,
                  is_auto_trading_active >>

(***************************************************************************)
(* TradingManager.stop_trading, on the main thread.                        *)
(***************************************************************************)
StopTrading ==
  /\ main.pc = "idle"
  /\ IF ~is_auto_trading_active
     THEN UNCHANGED << main, is_auto_trading_active >>
     ELSE /\ is_auto_trading_active' = FALSE
          /\ main' = [main EXCEPT !.pc = "sp_loop",
                                  !.todo = InOrder(workers, DOMAIN workers)]
  /\ UNCHANGED << budget, now, is_initialized, com_lock, sub_lock,
                  realtime_subscribers, gw, feed_seq, faults, trade_signals,
                  strategy_data, workers,
                  tw >>

\* the head of the loop over self.workers.items(); after the loop the map is
\* cleared and stop_trading returns
StopLoop ==
  /\ main.pc = "sp_loop"
  /\ IF main.todo = << >>
     THEN /\ workers' = EmptyMap
          /\ main' = IdleMain
     ELSE /\ main' = [main EXCEPT !.pc = "sp_unsub", !.code = Head(main.todo),
                                  !.worker = workers[Head(main.todo)]]
          /\ UNCHANGED workers
  /\ UNCHANGED << budget, now, is_initialized, com_lock, sub_lock,
                  realtime_subscribers, gw, feed_seq, faults, trade_signals,
                  strategy_data,
                  is_auto_trading_active, tw >>

\* CreonManager.unsubscribe_realtime up to obj.Unsubscribe()
UnsubscribeEnter ==
  /\ main.pc = "sp_unsub"
  /\ main.call = "no"
  /\ sub_lock = {}
  /\ sub_lock' = {Main}
  /\ main' = [main EXCEPT !.call =
       IF main.code \in DOMAIN realtime_subscribers THEN "in" ELSE "skip"]
  /\ UNCHANGED << budget, now, is_initialized, com_lock, realtime_subscribers, gw,
                  feed_seq, faults, trade_signals,
                  strategy_data, is_auto_trading_active, workers,
                  tw >>

\* unsubscribe_realtime deletes the subscription and returns
UnsubscribeLeave ==
  /\ main.pc = "sp_unsub"
  /\ main.call \in {"in", "skip"}
  /\ sub_lock' = {}
  /\ realtime_subscribers' = Del(realtime_subscribers, main.code)
  /\ main' = [main EXCEPT !.pc = "sp_stop", !.call = "no"]
  /\ UNCHANGED << budget, now, is_initialized, com_lock, gw, feed_seq, faults, trade_signals,
                  strategy_data,
                  is_auto_trading_active, workers, tw >>

\* TradingWorker.stop(), called by stop_trading
WorkerStop ==
  /\ main.pc = "sp_stop"
  /\ tw' = [tw EXCEPT ![main.worker].stop_event = TRUE]
  /\ main' = [main EXCEPT !.pc = "sp_join"]
  /\ UNCHANGED << budget, now, is_initialized, com_lock, sub_lock,
                  realtime_subscribers, gw, feed_seq, faults, trade_signals,
                  strategy_data,
                  is_auto_trading_active, workers >>

\* worker.wait(2000) returns when the thread has finished or when the 2
\* seconds have passed, whichever is first
JoinReturnsUnbounded(e) == Finished(e)

JoinReturns(e) == Finished(e) \/ TRUE

JoinReturn ==
  /\ main.pc = "sp_join"
  /\ JoinReturns(main.worker)
  /\ main' = [main EXCEPT !.pc = "sp_loop", !.todo = Tail(main.todo)]
  /\ UNCHANGED << budget, now, is_initialized, com_lock, sub_lock,
                  realtime_subscribers, gw, feed_seq, faults, trade_signals,
                  strategy_data,
                  is_auto_trading_active, workers, tw >>


(***************************************************************************)
(* The gateway (CreonManager) as the worker and the main thread see it.    *)
(***************************************************************************)
\* the places where a worker calls a gateway method that takes com_lock
ComSites ==
  {"run_balance", "run_info", "refresh_high", "refresh_low", "buy_order",
   "buy_refresh", "sell_order", "sell_refresh", "trail_order",
   "trail_refresh"}

BalanceSites == {"run_balance", "buy_refresh", "sell_refresh", "trail_refresh"}

\* what StockMst reports as the price of a symbol
QuotePrices == {100}
\* what get_high_price_for_days and get_low_price_for_days can return
\* (0: no data, or an exception)
HighReplies == {0, 100}
LowReplies == {0, 110}

\* a context is inside a call into the gateway: "in" under the lock it took,
\* "read" in get_stock_balance_and_avg_price after com_lock is released
\* (lines 306-312 read the reply outside the with block)
InGateway(x) ==
  IF x = Main THEN main.call \in {"in", "read"}
  ELSE tw[x].call \in {"in", "read"}

\* with com_lock: (a worker)
WorkerComEnter(e) ==
  /\ tw[e].pc \in ComSites
  /\ tw[e].call = "no"
  /\ tw[e].pc \in {"refresh_high", "refresh_low"} => tw[e].idx >= 1
  /\ com_lock = {}
  /\ com_lock' = {e}
  /\ tw' = [tw EXCEPT ![e].call = "in"]
  /\ UNCHANGED << budget, now, is_initialized, sub_lock, realtime_subscribers, gw,
                  feed_seq, faults, trade_signals,
                  strategy_data, is_auto_trading_active, workers,
                  main >>

\* a query of the gateway succeeds, or raises inside the gateway
Fault(ok) ==
  /\ ok \/ faults < budget.faults
  /\ faults' = IF ok THEN faults ELSE faults + 1

\* get_stock_balance_and_avg_price: BlockRequest under com_lock; the reply
\* is the position at that moment, (0, 0) after an exception
BalanceReply(c, ok) == IF ok THEN << gw[c].qty, gw[c].avg >> ELSE << 0, 0 >>

WorkerBalanceRequest(e, ok) ==
  /\ tw[e].pc \in BalanceSites
  /\ tw[e].call = "in"
  /\ Fault(ok)
  /\ com_lock' = {}
  /\ tw' = [tw EXCEPT ![e].call = IF ok THEN "read" ELSE "done",
                      ![e].res = BalanceReply(tw[e].code, ok)]
  /\ UNCHANGED << budget, now, is_initialized, sub_lock, realtime_subscribers, gw,
                  feed_seq, trade_signals,
                  strategy_data, is_auto_trading_active, workers,
                  main >>

\* place_order(code, qty, 0, is_buy) returned True: the market order is
\* filled against the account (a sale of at most what the account holds)
Filled(pos, qty, price, is_buy) ==
  IF is_buy
  THEN [qty |-> pos.qty + qty,
        avg |-> (pos.qty * pos.avg + qty * price) \div (pos.qty + qty)]
  ELSE IF qty >= pos.qty THEN [qty |-> 0, avg |-> 0]
       ELSE [qty |-> pos.qty - qty, avg |-> pos.avg]

(***************************************************************************)
(* The clock and the trading window (line 1155), the refresh trigger       *)
(* (line 1160).                                                            *)
(***************************************************************************)
InWindow(t) == OpenT <= t /\ t <= CloseT

RefreshDue(t) == ((t \div 60) % 60) % 5 = 0 /\ t % 60 < 5

\* the next instant the run looks at: the close of the window, then the
\* seconds after it; a worker whose caches were computed before a step of
\* 5 minutes or more has aged
NextInstant(t) == IF t < CloseT THEN CloseT ELSE t + 1

Advance ==
  /\ now < budget.last
  /\ now' = NextInstant(now)
  /\ tw' = [e \in Engines |->
              IF NextInstant(now) - now >= RefreshEvery
                 /\ tw[e].last_high_refresh_date # NoDate
              THEN [tw[e] EXCEPT !.aged = TRUE] ELSE tw[e]]
  /\ UNCHANGED << budget, is_initialized, com_lock, sub_lock,
                  realtime_subscribers, gw, feed_seq, faults, trade_signals,
                  strategy_data, is_auto_trading_active,
                  workers, main >>

(***************************************************************************)
(* CpEventClass.OnReceived: the feed puts a tick on the subscriber's queue.*)
(***************************************************************************)
OnReceived(code, price) ==
  /\ feed_seq < budget.ticks
  /\ code \in DOMAIN realtime_subscribers
  /\ LET e == realtime_subscribers[code]
         t == [NoTick EXCEPT !.seq = feed_seq + 1, !.current_price = price,
                             !.volume = 1, !.trade_value = 1]
     IN tw' = [tw EXCEPT ![e].data_queue = Append(@, t),
                         ![e].last_put = t.seq]
  /\ feed_seq' = feed_seq + 1
  /\ UNCHANGED << budget, now, is_initialized, com_lock, sub_lock,
                  realtime_subscribers, gw, faults, trade_signals,
                  strategy_data, is_auto_trading_active, workers, main >>

(***************************************************************************)
(* TradingWorker.run: start-up (lines 1138-1149).                          *)
(***************************************************************************)
RunBalanceDone(e) ==
  /\ tw[e].pc = "run_balance"
  /\ tw[e].call \in {"read", "done"}
  /\ tw' = [tw EXCEPT ![e].quantity_held = tw[e].res[1],
                      ![e].avg_buy_price = tw[e].res[2],
                      ![e].res = << 0, 0 >>,
                      ![e].pc = "run_info", ![e].call = "no"]
  /\ UNCHANGED << budget, now, is_initialized, com_lock, sub_lock,
                  realtime_subscribers, gw, feed_seq, faults, trade_signals,
                  strategy_data,
                  is_auto_trading_active, workers, main >>

\* a worker whose run() is over: the thread is gone and nothing reads its
\* fields again but the stop flag
Ended(w, how) ==
  [NoWorker EXCEPT !.pc = how, !.code = w.code, !.stop_event = w.stop_event]

\* get_stock_info has no handler: an exception leaves run() before its try
RunInfo(e, ok) ==
  /\ tw[e].pc = "run_info"
  /\ tw[e].call = "in"
  /\ Fault(ok)
  /\ com_lock' = {}
  /\ \E close \in QuotePrices :
       tw' = [tw EXCEPT ![e] =
                IF ok
                THEN [tw[e] EXCEPT !.prev_close_price = close,
                                   !.pc = "refresh_high", !.idx = 0,
                                   !.ret = "loop_top", !.call = "no"]
                ELSE Ended(tw[e], "crashed")]
  /\ UNCHANGED << budget, now, is_initialized, sub_lock, realtime_subscribers, gw,
                  feed_seq, trade_signals,
                  strategy_data, is_auto_trading_active, workers,
                  main >>

\* the first index >= i of a rule of the given strategy, Len + 1 if none
RECURSIVE NextOf(_, _, _)
NextOf(list, i, strat) ==
  IF i > Len(list) THEN Len(list) + 1
  ELSE IF list[i].strategy = strat THEN i
  ELSE NextOf(list, i + 1, strat)

\* a variant of RefreshedToday that forgets the pass of the day
RefreshedNever(last, t) == FALSE

\* lines 1102-1104 and 1118-1120: the pass of today has been made
RefreshedToday(last, t) == last = Date(t)

\* refresh_nday_high_targets up to its first gateway call
RefreshHighBegin(e) ==
  /\ tw[e].pc = "refresh_high"
  /\ tw[e].idx = 0
  /\ IF RefreshedToday(tw[e].last_high_refresh_date, now)
     THEN tw' = [tw EXCEPT ![e].pc = "refresh_low"]
     ELSE LET i == NextOf(buy_strategies(e), 1, "NDayHigh") IN
          IF i > Len(buy_strategies(e))
          THEN tw' = [tw EXCEPT ![e].nday_high_targets = EmptyMap,
                                ![e].last_high_refresh_date = Date(now),
                                ![e].high_passes = @ + 1,
                                ![e].aged = FALSE,
                                ![e].pc = "refresh_low"]
          ELSE tw' = [tw EXCEPT ![e].nday_high_targets = EmptyMap,
                                ![e].high_passes = @ + 1,
                                ![e].aged = FALSE,
                                ![e].idx = i]
  /\ UNCHANGED << budget, now, is_initialized, com_lock, sub_lock,
                  realtime_subscribers, gw, feed_seq, faults, trade_signals,
                  strategy_data,
                  is_auto_trading_active, workers, main >>

\* get_high_price_for_days returns (0 after an exception or with no data)
RefreshHighCall(e, high) ==
  /\ tw[e].pc = "refresh_high"
  /\ tw[e].call = "in"
  /\ com_lock' = {}
  /\ LET n == buy_strategies(e)[tw[e].idx].param
         i == NextOf(buy_strategies(e), tw[e].idx + 1, "NDayHigh")
         targets == IF high > 0 THEN Put(tw[e].nday_high_targets, n, high)
                    ELSE tw[e].nday_high_targets
     IN IF i > Len(buy_strategies(e))
        THEN tw' = [tw EXCEPT ![e].nday_high_targets = targets,
                              ![e].last_high_refresh_date = Date(now),
                              ![e].pc = "refresh_low", ![e].idx = 0,
                              ![e].call = "no"]
        ELSE tw' = [tw EXCEPT ![e].nday_high_targets = targets,
                              ![e].idx = i, ![e].call = "no"]
  /\ UNCHANGED << budget, now, is_initialized, sub_lock, realtime_subscribers, gw,
                  feed_seq, faults, trade_signals,
                  strategy_data, is_auto_trading_active, workers,
                  main >>

\* refresh_nday_low_targets up to its first gateway call
RefreshLowBegin(e) ==
  /\ tw[e].pc = "refresh_low"
  /\ tw[e].idx = 0
  /\ IF RefreshedToday(tw[e].last_low_refresh_date, now)
     THEN tw' = [tw EXCEPT ![e].pc = tw[e].ret]
     ELSE LET i == NextOf(sell_strategies(e), 1, "NDayLow") IN
          IF i > Len(sell_strategies(e))
          THEN tw' = [tw EXCEPT ![e].nday_low_targets = EmptyMap,
                                ![e].last_low_refresh_date = Date(now),
                                ![e].low_passes = @ + 1,
                                ![e].pc = tw[e].ret]
          ELSE tw' = [tw EXCEPT ![e].nday_low_targets = EmptyMap,
                                ![e].low_passes = @ + 1,
                                ![e].idx = i]
  /\ UNCHANGED << budget, now, is_initialized, com_lock, sub_lock,
                  realtime_subscribers, gw, feed_seq, faults, trade_signals,
                  strategy_data,
                  is_auto_trading_active, workers, main >>

RefreshLowCall(e, low) ==
  /\ tw[e].pc = "refresh_low"
  /\ tw[e].call = "in"
  /\ com_lock' = {}
  /\ LET n == sell_strategies(e)[tw[e].idx].param
         i == NextOf(sell_strategies(e), tw[e].idx + 1, "NDayLow")
         targets == IF low > 0 THEN Put(tw[e].nday_low_targets, n, low)
                    ELSE tw[e].nday_low_targets
     IN IF i > Len(sell_strategies(e))
        THEN tw' = [tw EXCEPT ![e].nday_low_targets = targets,
                              ![e].last_low_refresh_date = Date(now),
                              ![e].pc = tw[e].ret, ![e].idx = 0,
                              ![e].call = "no"]
        ELSE tw' = [tw EXCEPT ![e].nday_low_targets = targets,
                              ![e].idx = i, ![e].call = "no"]
  /\ UNCHANGED << budget, now, is_initialized, sub_lock, realtime_subscribers, gw,
                  feed_seq, faults, trade_signals,
                  strategy_data, is_auto_trading_active, workers,
                  main >>


(***************************************************************************)
(* TradingWorker.run: the loop (lines 1152-1170).                          *)
(***************************************************************************)
\* while not self._stop_event.is_set(); the finally block ends the thread
LoopExit(e) ==
  /\ tw[e].pc = "loop_top"
  /\ tw[e].stop_event
  /\ tw' = [tw EXCEPT ![e] = Ended(tw[e], "stopped")]
  /\ UNCHANGED << budget, now, is_initialized, com_lock, sub_lock,
                  realtime_subscribers, gw, feed_seq, faults, trade_signals,
                  strategy_data,
                  is_auto_trading_active, workers, main >>

\* lines 1154-1162: the window test, then the 5-minute refresh trigger
LoopTop(e) ==
  /\ tw[e].pc = "loop_top"
  /\ ~tw[e].stop_event
  /\ tw' = [tw EXCEPT ![e].pc =
              IF ~InWindow(now) THEN "sleep"
              ELSE IF RefreshDue(now)
                      /\ ( ~RefreshedToday(tw[e].last_high_refresh_date, now)
                           \/ ~RefreshedToday(tw[e].last_low_refresh_date, now) )
                   THEN "refresh_high"
              ELSE "wait_tick",
            ![e].idx = 0, ![e].ret = "wait_tick"]
  /\ UNCHANGED << budget, now, is_initialized, com_lock, sub_lock,
                  realtime_subscribers, gw, feed_seq, faults, trade_signals,
                  strategy_data,
                  is_auto_trading_active, workers, main >>

\* time.sleep(1); continue
Sleep(e) ==
  /\ tw[e].pc = "sleep"
  /\ tw' = [tw EXCEPT ![e].pc = "loop_top"]
  /\ UNCHANGED << budget, now, is_initialized, com_lock, sub_lock,
                  realtime_subscribers, gw, feed_seq, faults, trade_signals,
                  strategy_data,
                  is_auto_trading_active, workers, main >>

\* the worker back at the top of the while loop: the locals of the
\* iteration are dead (data is assigned again before it is read)
EndTick(w) ==
  [w EXCEPT !.pc = "loop_top", !.call = "no", !.idx = 0, !.qty = 0,
            !.res = << 0, 0 >>,
            !.data = [NoTick EXCEPT !.seq = w.data.seq],
            !.skipped = 0, !.fills = 0, !.first_sat = 0, !.last_eval = 0,
            !.branches = {}, !.trail_marks = {}]

\* the history of a tick that is taken for evaluation
Fresh(w, t) ==
  [w EXCEPT !.data = t, !.fills = 0, !.first_sat = 0, !.last_eval = 0,
            !.branches = {}, !.trail_marks = {}]

\* data = self.data_queue.get(timeout=1.0)
GetTick(e) ==
  /\ tw[e].pc = "wait_tick"
  /\ tw[e].data_queue # << >>
  /\ tw' = [tw EXCEPT ![e] =
              [Fresh(tw[e], Head(tw[e].data_queue))
                 EXCEPT !.data_queue = Tail(tw[e].data_queue),
                        !.pc = "drain"]]
  /\ UNCHANGED << budget, now, is_initialized, com_lock, sub_lock,
                  realtime_subscribers, gw, feed_seq, faults, trade_signals,
                  strategy_data,
                  is_auto_trading_active, workers, main >>

\* a variant of TimesOut for a get() that waits without a timeout
NeverTimesOut(q) == FALSE

\* line 1166: get(timeout=1.0) raises queue.Empty after a second on a
\* queue that stays empty
TimesOut(q) == q = << >>

\* except queue.Empty: continue
GetTimeout(e) ==
  /\ tw[e].pc = "wait_tick"
  /\ TimesOut(tw[e].data_queue)
  /\ tw' = [tw EXCEPT ![e].pc = "loop_top"]
  /\ UNCHANGED << budget, now, is_initialized, com_lock, sub_lock,
                  realtime_subscribers, gw, feed_seq, faults, trade_signals,
                  strategy_data,
                  is_auto_trading_active, workers, main >>

\* while not self.data_queue.empty():
DrainNever(q) == FALSE

DrainMore(q) == q # << >>

\*   data = self.data_queue.get_nowait()
DrainGet(e) ==
  /\ tw[e].pc = "drain"
  /\ DrainMore(tw[e].data_queue)
  /\ tw' = [tw EXCEPT ![e] =
              [Fresh(tw[e], Head(tw[e].data_queue))
                 EXCEPT !.data_queue = Tail(tw[e].data_queue),
                        !.skipped = @ + 1]]
  /\ UNCHANGED << budget, now, is_initialized, com_lock, sub_lock,
                  realtime_subscribers, gw, feed_seq, faults, trade_signals,
                  strategy_data,
                  is_auto_trading_active, workers, main >>

(***************************************************************************)
(* TradingWorker.run: the evaluation of a tick (lines 1172-1220).          *)
(***************************************************************************)
\* line 1173 and line 1192
BuyBranch(w) == w.buy_enabled /\ w.quantity_held <= 0

SellBranch(w) == w.sell_enabled /\ w.quantity_held > 0

\* the queue is found empty and the tick in data is evaluated
Evaluate(e) ==
  /\ tw[e].pc = "drain"
  /\ ~DrainMore(tw[e].data_queue)
  /\ tw' = [tw EXCEPT ![e] =
       IF BuyBranch(tw[e])
       THEN [tw[e] EXCEPT !.pc = "buy", !.idx = 1, !.branches = @ \cup {"buy"}]
       ELSE IF SellBranch(tw[e])
       THEN [tw[e] EXCEPT !.pc = "sell", !.idx = 1,
                          !.branches = @ \cup {"sell"},
                          !.data.close_price = tw[e].prev_close_price]
       ELSE EndTick(tw[e])]
  /\ UNCHANGED << budget, now, is_initialized, com_lock, sub_lock,
                  realtime_subscribers, gw, feed_seq, faults, trade_signals,
                  strategy_data,
                  is_auto_trading_active, workers, main >>

\* a variant of ErrorEnds in which an error ends every worker
ErrorEndsAll(e) == Engines

\* lines 1151 and 1222-1227: the try of run() is the worker's own, so the
\* workers whose loop an exception raised in worker e ends are e alone
ErrorEnds(e) == {e}

\* an exception raised while a rule is examined (outside the gateway, whose
\* order and position calls catch their own): except Exception logs it, the
\* finally block ends the thread
EvalError(e) ==
  /\ tw[e].pc \in {"buy", "sell"}
  /\ tw' = [x \in Engines |->
              IF x \in ErrorEnds(e) /\ x \in Constructed /\ ~Finished(x)
              THEN Ended(tw[x], "stopped") ELSE tw[x]]
  /\ UNCHANGED << budget, now, is_initialized, com_lock, sub_lock,
                  realtime_subscribers, gw, feed_seq, faults, trade_signals,
                  strategy_data,
                  is_auto_trading_active, workers, main >>

\* dict.get(key) of a dict of targets: 0 stands for None
Get(f, k) == IF k \in DOMAIN f THEN f[k] ELSE 0

\* a variant of BreaksHigh that a price equal to the high satisfies
ReachesHigh(cur, high) == high # 0 /\ cur >= high

\* line 1241: `if high and cur > high`, high being None (0 here) when the
\* dict of targets has no entry for the rule's n
BreaksHigh(cur, high) == high # 0 /\ cur > high

\* _check_buy_condition(cfg, info)
CheckBuyCondition(w, cfg, info) ==
  LET cur == info.current_price IN
  IF cur <= 0 THEN FALSE
  ELSE IF cfg.strategy = "NDayHigh"
  THEN LET high == Get(w.nday_high_targets, cfg.param)
       IN BreaksHigh(cur, high)
  ELSE IF cfg.strategy = "PriceBreakout"
  THEN IF cur < cfg.param THEN FALSE
       ELSE \/ cfg.cond_type = "None"
            \/ cfg.cond_type = "Volume" /\ info.volume >= cfg.cond_value
            \/ cfg.cond_type = "TradeValue"
                 /\ info.trade_value >= cfg.cond_value
  ELSE FALSE

\* a variant of CalculateBuyQty that rounds the quotient up
CalculateBuyQtyUp(cfg, cur) ==
  IF cur > 0 THEN (cfg.amount + cur - 1) \div cur ELSE 0

\* _calculate_buy_qty(cfg, cur)
CalculateBuyQty(cfg, cur) == IF cur > 0 THEN cfg.amount \div cur ELSE 0

\* _check_sell_condition(cfg, info, qty, avg)
CheckSellCondition(cfg, info, qty, avg) ==
  LET cur == info.current_price IN
  IF avg <= 0 THEN FALSE
  ELSE IF cfg.strategy = "ProfitTarget"
  THEN (cur - avg) * 100 >= cfg.param * avg
  ELSE IF cfg.strategy = "StopLoss"
  THEN (avg - cur) * 100 >= cfg.param * avg
  ELSE IF cfg.strategy = "PriceBreach"
  THEN cur <= cfg.param
  ELSE FALSE

\* _calculate_sell_qty(cfg, qty, cur)
CalculateSellQty(cfg, qty, cur) ==
  IF cfg.method = "Percent" THEN (qty * cfg.value) \div 100
  ELSE IF cfg.method = "Cash"
  THEN IF cur > 0 THEN cfg.value \div cur ELSE 0
  ELSE IF cfg.method = "Full" THEN qty
  ELSE 0

\* lines 1202-1210: should_sell of a rule that is not a trailing stop
ShouldSell(w, cfg) ==
  IF cfg.strategy = "NDayLow"
  THEN LET low_target == Get(w.nday_low_targets, cfg.param)
           current_price == w.data.current_price
       IN low_target # 0 /\ current_price > 0 /\ current_price < low_target
  ELSE CheckSellCondition(cfg, w.data, w.quantity_held, w.avg_buy_price)

\* a variant of Rejected in which a refused order disarms the trailing stop
RejectedDisarms(w) ==
  [w EXCEPT !.trailing_stop_active = FALSE, !.trailing_peak_price = 0]

\* place_order has returned False: the worker logs (lines 1341-1344) or
\* does nothing (lines 1177, 1214) and goes on with the state it has
Rejected(w) == w

\* the worker w with rule i noted as examined, and as satisfied if sat
Noted(w, i, sat) ==
  [w EXCEPT !.last_eval = i,
            !.first_sat = IF sat /\ @ = 0 THEN i ELSE @]


\* the buy loop at rule idx (lines 1174-1177): the loop ends after the last
\* rule; a satisfied rule with qty > 0 calls place_order
BuyStep(e) ==
  /\ tw[e].pc = "buy"
  /\ LET w == tw[e]
         list == buy_strategies(e)
     IN IF w.idx > Len(list)
        THEN tw' = [tw EXCEPT ![e] = EndTick(w)]
        ELSE LET cfg == list[w.idx]
                 sat == CheckBuyCondition(w, cfg, w.data)
                 qty == CalculateBuyQty(cfg, w.data.current_price)
                 n == Noted(w, w.idx, sat)
             IN IF sat /\ qty > 0
                THEN tw' = [tw EXCEPT ![e] =
                              [n EXCEPT !.pc = "buy_order", !.qty = qty]]
                ELSE tw' = [tw EXCEPT ![e] = [n EXCEPT !.idx = w.idx + 1]]
  /\ UNCHANGED << budget, now, is_initialized, com_lock, sub_lock,
                  realtime_subscribers, gw, feed_seq, faults, trade_signals,
                  strategy_data,
                  is_auto_trading_active, workers, main >>

\* place_order(code, qty, 0, is_buy=True) returns: True leads to lines
\* 1178-1184, False to the next rule
BuyOrderDone(e, ok) ==
  /\ tw[e].pc = "buy_order"
  /\ tw[e].call = "in"
  /\ com_lock' = {}
  /\ IF ok
     THEN /\ gw' = [gw EXCEPT ![tw[e].code] =
                      Filled(@, tw[e].qty, tw[e].data.current_price, TRUE)]
          /\ tw' = [tw EXCEPT ![e].pc = "buy_refresh", ![e].call = "no",
                              ![e].fills = @ + 1]
          /\ trade_signals' = [trade_signals EXCEPT ![tw[e].code] = @ + 1]
     ELSE /\ tw' = [tw EXCEPT ![e] =
                      [Rejected(tw[e]) EXCEPT !.pc = "buy", !.call = "no",
                                              !.idx = @ + 1, !.qty = 0]]
          /\ UNCHANGED << gw, trade_signals >>
  /\ UNCHANGED << budget, now, is_initialized, sub_lock, realtime_subscribers,
                  feed_seq, faults,
                  strategy_data, is_auto_trading_active, workers,
                  main >>

\* a variant of TrailingReset that keeps the trailing stop as it is
TrailingKept(w) == w

\* lines 1186-1188: the trailing stop of the new position is not initialised
TrailingReset(w) ==
  [w EXCEPT !.trailing_stop_active = FALSE,
            !.trailing_peak_price = 0,
            !.trailing_base_price_met = FALSE]

\* lines 1184-1189: the position is read back, the trailing stop is reset,
\* break
BuyRefreshDone(e) ==
  /\ tw[e].pc = "buy_refresh"
  /\ tw[e].call \in {"read", "done"}
  /\ tw' = [tw EXCEPT ![e] =
              EndTick(TrailingReset(
                        [tw[e] EXCEPT !.quantity_held = tw[e].res[1],
                                      !.avg_buy_price = tw[e].res[2]]))]
  /\ UNCHANGED << budget, now, is_initialized, com_lock, sub_lock,
                  realtime_subscribers, gw, feed_seq, faults, trade_signals,
                  strategy_data,
                  is_auto_trading_active, workers, main >>

\* a variant of PeakRises in which the peak follows the price both ways
PeakMoves(cur, peak) == cur # peak

\* line 1324: the armed stop moves its peak to a price above it
PeakRises(cur, peak) == cur > peak

\* line 1317 and line 1329, in exact arithmetic
RiseReached(cur, peak, raise_pct) == cur * 100 >= peak * (100 + raise_pct)

TrailHit(cur, peak, trail_pct) == cur * 100 <= peak * (100 - trail_pct)

\* _execute_trailing_stop(cfg, info, qty, avg) up to its return or its call
\* of place_order (pc "trail_order"); i is the rule's index
ExecuteTrailingStop(w, cfg, i) ==
  LET cur == w.data.current_price
      qty == w.quantity_held
      avg == w.avg_buy_price
  IN IF ~w.trailing_base_price_met
     THEN LET peak == IF cfg.trail_base = "Average" /\ avg > 0 THEN avg
                      ELSE IF cfg.trail_base = "PrevClose"
                      THEN IF w.prev_close_price > 0
                           THEN w.prev_close_price ELSE cur
                      ELSE cur
          IN [Noted(w, i, FALSE) EXCEPT !.trailing_peak_price = peak,
                                        !.trailing_base_price_met = TRUE,
                                        !.trail_marks = @ \cup {"base"}]
     ELSE IF ~w.trailing_stop_active
     THEN IF RiseReached(cur, w.trailing_peak_price, cfg.raise_pct)
          THEN [Noted(w, i, FALSE) EXCEPT !.trailing_stop_active = TRUE,
                                          !.trailing_peak_price = cur,
                                          !.trail_marks = @ \cup {"arm"}]
          ELSE Noted(w, i, FALSE)
     ELSE IF PeakRises(cur, w.trailing_peak_price)
     THEN [Noted(w, i, FALSE) EXCEPT !.trailing_peak_price = cur]
     ELSE IF TrailHit(cur, w.trailing_peak_price, cfg.trail_pct)
     THEN LET sell_qty == CalculateSellQty(cfg, qty, cur)
          IN IF sell_qty > 0
             THEN [Noted(w, i, TRUE) EXCEPT !.pc = "trail_order",
                                            !.qty = sell_qty]
             ELSE Noted(w, i, TRUE)
     ELSE Noted(w, i, FALSE)

\* lines 1198-1199, after _execute_trailing_stop has returned
AfterTrailingStop(w) ==
  IF w.quantity_held <= 0
  THEN EndTick(w)
  ELSE [w EXCEPT !.pc = "sell", !.call = "no", !.idx = @ + 1, !.qty = 0,
                 !.res = << 0, 0 >>]

\* the sell loop at rule idx (lines 1194-1214)
SellStep(e) ==
  /\ tw[e].pc = "sell"
  /\ LET w == tw[e]
         list == sell_strategies(e)
     IN IF w.idx > Len(list)
        THEN tw' = [tw EXCEPT ![e] = EndTick(w)]
        ELSE LET cfg == list[w.idx] IN
             IF cfg.strategy = "TrailingStop"
             THEN LET r == ExecuteTrailingStop(w, cfg, w.idx)
                  IN tw' = [tw EXCEPT ![e] =
                              IF r.pc = "trail_order" THEN r
                              ELSE AfterTrailingStop(r)]
             ELSE LET sat == ShouldSell(w, cfg)
                      sell_qty == CalculateSellQty(cfg, w.quantity_held,
                                                   w.data.current_price)
                      n == Noted(w, w.idx, sat)
                  IN IF sat /\ sell_qty > 0
                     THEN tw' = [tw EXCEPT ![e] =
                                   [n EXCEPT !.pc = "sell_order",
                                             !.qty = sell_qty]]
                     ELSE tw' = [tw EXCEPT ![e] =
                                   [n EXCEPT !.idx = w.idx + 1]]
  /\ UNCHANGED << budget, now, is_initialized, com_lock, sub_lock,
                  realtime_subscribers, gw, feed_seq, faults, trade_signals,
                  strategy_data,
                  is_auto_trading_active, workers, main >>

\* place_order(code, sell_qty, 0, is_buy=False) returns at line 1214
SellOrderDone(e, ok) ==
  /\ tw[e].pc = "sell_order"
  /\ tw[e].call = "in"
  /\ com_lock' = {}
  /\ IF ok
     THEN /\ gw' = [gw EXCEPT ![tw[e].code] =
                      Filled(@, tw[e].qty, tw[e].data.current_price, FALSE)]
          /\ tw' = [tw EXCEPT ![e].pc = "sell_refresh", ![e].call = "no",
                              ![e].fills = @ + 1]
          /\ trade_signals' = [trade_signals EXCEPT ![tw[e].code] = @ + 1]
     ELSE /\ tw' = [tw EXCEPT ![e] =
                      [Rejected(tw[e]) EXCEPT !.pc = "sell", !.call = "no",
                                              !.idx = @ + 1, !.qty = 0]]
          /\ UNCHANGED << gw, trade_signals >>
  /\ UNCHANGED << budget, now, is_initialized, sub_lock, realtime_subscribers,
                  feed_seq, faults,
                  strategy_data, is_auto_trading_active, workers,
                  main >>

\* lines 1218-1220: position read back; stop() when nothing is held; break
SellRefreshDone(e) ==
  /\ tw[e].pc = "sell_refresh"
  /\ tw[e].call \in {"read", "done"}
  /\ tw' = [tw EXCEPT ![e] =
              EndTick([tw[e] EXCEPT !.quantity_held = tw[e].res[1],
                                    !.avg_buy_price = tw[e].res[2],
                                    !.stop_event = @ \/ tw[e].res[1] <= 0])]
  /\ UNCHANGED << budget, now, is_initialized, com_lock, sub_lock,
                  realtime_subscribers, gw, feed_seq, faults, trade_signals,
                  strategy_data,
                  is_auto_trading_active, workers, main >>

\* place_order returns at line 1332
TrailOrderDone(e, ok) ==
  /\ tw[e].pc = "trail_order"
  /\ tw[e].call = "in"
  /\ com_lock' = {}
  /\ IF ok
     THEN /\ gw' = [gw EXCEPT ![tw[e].code] =
                      Filled(@, tw[e].qty, tw[e].data.current_price, FALSE)]
          /\ tw' = [tw EXCEPT ![e].pc = "trail_refresh", ![e].call = "no",
                              ![e].fills = @ + 1]
          /\ trade_signals' = [trade_signals EXCEPT ![tw[e].code] = @ + 1]
     ELSE /\ tw' = [tw EXCEPT ![e] = AfterTrailingStop(Rejected(tw[e]))]
          /\ UNCHANGED << gw, trade_signals >>
  /\ UNCHANGED << budget, now, is_initialized, sub_lock, realtime_subscribers,
                  feed_seq, faults,
                  strategy_data, is_auto_trading_active, workers,
                  main >>

\* line 1339: the trailing stop asks the worker to stop
TrailStops(w, cfg) == w.quantity_held = 0 /\ cfg.method = "Full"

\* lines 1338-1340, then lines 1198-1199
TrailRefreshDone(e) ==
  /\ tw[e].pc = "trail_refresh"
  /\ tw[e].call \in {"read", "done"}
  /\ LET r == [tw[e] EXCEPT !.quantity_held = tw[e].res[1],
                            !.avg_buy_price = tw[e].res[2]]
         cfg == sell_strategies(e)[tw[e].idx]
     IN tw' = [tw EXCEPT ![e] =
                 AfterTrailingStop(
                   [r EXCEPT !.stop_event = @ \/ TrailStops(r, cfg)])]
  /\ UNCHANGED << budget, now, is_initialized, com_lock, sub_lock,
                  realtime_subscribers, gw, feed_seq, faults, trade_signals,
                  strategy_data,
                  is_auto_trading_active, workers, main >>

(***************************************************************************)
(* TradingManager._handle_trade_signal, the slot of a worker's            *)
(* trade_signal, which runs MainWindow.refresh_prices_for_code on the main *)
(* thread once for every emission.                                         *)
(***************************************************************************)
RefreshStart(code) ==
  /\ main.pc = "idle"
  /\ trade_signals[code] > 0
  /\ trade_signals' = [trade_signals EXCEPT ![code] = @ - 1]
  /\ main' = IF is_initialized
             THEN [main EXCEPT !.pc = "rf_bal", !.code = code]
             ELSE main
  /\ UNCHANGED << budget, now, is_initialized, com_lock, sub_lock,
                  realtime_subscribers, gw, feed_seq, faults,
                  strategy_data,
                  is_auto_trading_active, workers, tw >>

\* with com_lock: (the main thread)
MainComEnter ==
  /\ main.pc \in {"rf_bal", "rf_info"}
  /\ main.call = "no"
  /\ com_lock = {}
  /\ com_lock' = {Main}
  /\ main' = [main EXCEPT !.call = "in"]
  /\ UNCHANGED << budget, now, is_initialized, sub_lock, realtime_subscribers, gw,
                  feed_seq, faults, trade_signals,
                  strategy_data, is_auto_trading_active, workers,
                  tw >>

\* line 1811: BlockRequest of get_stock_balance_and_avg_price
RefreshBalanceRequest(ok) ==
  /\ main.pc = "rf_bal"
  /\ main.call = "in"
  /\ Fault(ok)
  /\ com_lock' = {}
  /\ main' = [main EXCEPT !.call = IF ok THEN "read" ELSE "done",
                          !.res = BalanceReply(main.code, ok)]
  /\ UNCHANGED << budget, now, is_initialized, sub_lock, realtime_subscribers, gw,
                  feed_seq, trade_signals,
                  strategy_data, is_auto_trading_active, workers,
                  tw >>

RefreshBalanceDone ==
  /\ main.pc = "rf_bal"
  /\ main.call \in {"read", "done"}
  /\ main' = [main EXCEPT !.pc = "rf_info", !.call = "no"]
  /\ UNCHANGED << budget, now, is_initialized, com_lock, sub_lock,
                  realtime_subscribers, gw, feed_seq, faults, trade_signals,
                  strategy_data,
                  is_auto_trading_active, workers, tw >>

\* line 1812: get_stock_info; an exception leaves the slot
RefreshInfo(ok) ==
  /\ main.pc = "rf_info"
  /\ main.call = "in"
  /\ Fault(ok)
  /\ com_lock' = {}
  /\ main' = IF ok THEN [main EXCEPT !.pc = "rf_write", !.call = "no"]
             ELSE IdleMain
  /\ UNCHANGED << budget, now, is_initialized, sub_lock, realtime_subscribers, gw,
                  feed_seq, trade_signals,
                  strategy_data, is_auto_trading_active, workers,
                  tw >>

\* lines 1816-1818: the position read at line 1811 is stored in the worker
RefreshWrite ==
  /\ main.pc = "rf_write"
  /\ IF main.code \in DOMAIN workers /\ ~Finished(workers[main.code])
     THEN tw' = [tw EXCEPT ![workers[main.code]].avg_buy_price = main.res[2],
                           ![workers[main.code]].quantity_held = main.res[1]]
     ELSE UNCHANGED tw
  /\ main' = IdleMain
  /\ UNCHANGED << budget, now, is_initialized, com_lock, sub_lock,
                  realtime_subscribers, gw, feed_seq, faults, trade_signals,
                  strategy_data,
                  is_auto_trading_active, workers >>

(***************************************************************************)
(* The specification.                                                      *)
(***************************************************************************)
StopTradingStep ==
  \/ StopLoop
  \/ UnsubscribeEnter
  \/ UnsubscribeLeave
  \/ WorkerStop
  \/ JoinReturn

Next ==
  \/ Advance
  \/ \E sel \in Selections : StartTrading(sel)
  \/ StartRefused
  \/ StartLoop
  \/ SubscribeEnter
  \/ \E ok \in BOOLEAN : SubscribeLeave(ok)
  \/ StopTrading
  \/ StopLoop
  \/ UnsubscribeEnter
  \/ UnsubscribeLeave
  \/ WorkerStop
  \/ JoinReturn
  \/ \E c \in Codes : RefreshStart(c)
  \/ MainComEnter
  \/ \E ok \in BOOLEAN : RefreshBalanceRequest(ok)
  \/ RefreshBalanceDone
  \/ \E ok \in BOOLEAN : RefreshInfo(ok)
  \/ RefreshWrite
  \/ \E c \in Codes, p \in Prices : OnReceived(c, p)
  \/ \E e \in Engines :
       \/ WorkerComEnter(e)
       \/ \E ok \in BOOLEAN : WorkerBalanceRequest(e, ok)
       \/ RunBalanceDone(e)
       \/ \E ok \in BOOLEAN : RunInfo(e, ok)
       \/ RefreshHighBegin(e)
       \/ \E high \in HighReplies : RefreshHighCall(e, high)
       \/ RefreshLowBegin(e)
       \/ \E low \in LowReplies : RefreshLowCall(e, low)
       \/ LoopExit(e)
       \/ LoopTop(e)
       \/ Sleep(e)
       \/ GetTick(e)
       \/ GetTimeout(e)
       \/ DrainGet(e)
       \/ Evaluate(e)
       \/ EvalError(e)
       \/ BuyStep(e)
       \/ \E ok \in BOOLEAN : BuyOrderDone(e, ok)
       \/ BuyRefreshDone(e)
       \/ SellStep(e)
       \/ \E ok \in BOOLEAN : SellOrderDone(e, ok)
       \/ SellRefreshDone(e)
       \/ \E ok \in BOOLEAN : TrailOrderDone(e, ok)
       \/ TrailRefreshDone(e)

Spec == Init /\ [][Next]_vars

\* the runs of LiveBudgets
LiveInit == InitWith(LiveBudgets)

\* the main thread runs stop_trading to its end: none of its steps waits
\* for another thread longer than the 2 seconds of worker.wait(2000)
FairSpec == LiveInit /\ [][Next]_vars /\ WF_vars(StopTradingStep)

\* the steps of worker e's thread
WorkerStep(e) ==
  \/ WorkerComEnter(e)
  \/ \E ok \in BOOLEAN : WorkerBalanceRequest(e, ok)
  \/ RunBalanceDone(e)
  \/ \E ok \in BOOLEAN : RunInfo(e, ok)
  \/ RefreshHighBegin(e)
  \/ \E high \in HighReplies : RefreshHighCall(e, high)
  \/ RefreshLowBegin(e)
  \/ \E low \in LowReplies : RefreshLowCall(e, low)
  \/ LoopExit(e)
  \/ LoopTop(e)
  \/ Sleep(e)
  \/ GetTick(e)
  \/ GetTimeout(e)
  \/ DrainGet(e)
  \/ Evaluate(e)
  \/ BuyStep(e)
  \/ \E ok \in BOOLEAN : BuyOrderDone(e, ok)
  \/ BuyRefreshDone(e)
  \/ SellStep(e)
  \/ \E ok \in BOOLEAN : SellOrderDone(e, ok)
  \/ SellRefreshDone(e)
  \/ \E ok \in BOOLEAN : TrailOrderDone(e, ok)
  \/ TrailRefreshDone(e)

\* the steps by which the main thread leaves the gateway
MainGatewayStep ==
  \/ \E ok \in BOOLEAN : RefreshBalanceRequest(ok)
  \/ \E ok \in BOOLEAN : RefreshInfo(ok)

\* every worker thread is scheduled, the timeouts of sleep(1) and of
\* get(timeout=1.0) expire, and every call into the gateway returns: the
\* main thread's, whose com_lock a worker may be waiting for, included.
LiveSpec ==
  /\ LiveInit
  /\ [][Next]_vars
  /\ \A e \in Engines : WF_vars(WorkerStep(e))
  /\ WF_vars(MainGatewayStep)

(***************************************************************************)
(* The evaluation of one tick (lines 1172-1220 up to the call of           *)
(* place_order) for every input of a bounded set: the worker has taken a   *)
(* tick off an empty queue and holds a position, caches of n-day targets   *)
(* and a trailing-stop state; the symbol has one buy rule and one sell     *)
(* rule.  The values are those the dialogs accept (amounts from 10,000,    *)
(* percentages from 1 to 100, prices from 100) and those the gateway       *)
(* reports (a price or an average price of 0 included).                    *)
(***************************************************************************)
RulePrices == {0, 95, 100, 105, 50000}

RulePositions ==
  { [qty |-> 0, avg |-> 0], [qty |-> 2, avg |-> 0],
    [qty |-> 2, avg |-> 100], [qty |-> 33, avg |-> 100] }

RuleBuyRules ==
  { BuyRule(s[1], s[2], amt) :
      s \in { << "PriceBreakout", 100 >>, << "NDayHigh", 1 >> },
      amt \in {10000, 1000000} }

RuleSizings ==
  { << "Percent", 50 >>, << "Percent", 100 >>, << "Cash", 10000 >>,
    << "Full", 100 >> }

RuleSellRules ==
  { SellRule(s[1], s[2], m[1], m[2]) :
      s \in { << "PriceBreach", 100 >>, << "ProfitTarget", 5 >>,
              << "StopLoss", 5 >>, << "NDayLow", 1 >> },
      m \in RuleSizings }
  \cup { TrailRule("Current", 5, 5, m[1], m[2]) : m \in RuleSizings }

\* trailing stop: not initialised, base set, armed
RuleTrailStates ==
  { [base |-> FALSE, active |-> FALSE, peak |-> 0],
    [base |-> TRUE, active |-> FALSE, peak |-> 100],
    [base |-> TRUE, active |-> TRUE, peak |-> 100] }

\* the dict of n-day targets: empty, or a target for n = 1
RuleTargets == { EmptyMap, Put(EmptyMap, 1, 100) }

RuleRun ==
  [engines |-> 1, ticks |-> 1, faults |-> 0, start |-> StartT,
   last |-> StartT]

RuleInit ==
  /\ budget = RuleRun
  /\ now = budget.start
  /\ is_initialized = TRUE
  /\ com_lock = {}
  /\ sub_lock = {}
  /\ realtime_subscribers = Put(EmptyMap, "A", 1)
  /\ feed_seq = 1
  /\ faults = 0
  /\ trade_signals = [c \in Codes |-> 0]
  /\ is_auto_trading_active = TRUE
  /\ workers = Put(EmptyMap, "A", 1)
  /\ main = IdleMain
  /\ \E pos \in RulePositions, b \in RuleBuyRules, s \in RuleSellRules,
        p \in RulePrices, t \in RuleTrailStates,
        high \in RuleTargets, low \in RuleTargets :
       LET cfg == Config(<< b >>, << s >>, TRUE, TRUE) IN
       /\ gw = [c \in Codes |-> pos]
       /\ strategy_data = [c \in Codes |-> cfg]
       /\ tw = [e \in Engines |->
                  IF e = 1
                  THEN [NewWorker("A", cfg, cfg) EXCEPT
                          !.pc = "drain",
                          !.data = [NoTick EXCEPT !.seq = 1,
                                                  !.current_price = p,
                                                  !.volume = 1,
                                                  !.trade_value = 1],
                          !.last_put = 1,
                          !.quantity_held = pos.qty,
                          !.avg_buy_price = pos.avg,
                          !.trailing_base_price_met = t.base,
                          !.trailing_stop_active = t.active,
                          !.trailing_peak_price = t.peak,
                          !.nday_high_targets = high,
                          !.last_high_refresh_date = Date(now),
                          !.nday_low_targets = low,
                          !.last_low_refresh_date = Date(now)]
                  ELSE NoWorker]

RuleNext ==
  \E e \in Engines :
    \/ Evaluate(e)
    \/ BuyStep(e)
    \/ SellStep(e)

RuleSpec == RuleInit /\ [][RuleNext]_vars

(***************************************************************************)
(* CreonManager.subscribe_realtime as a method of the gateway: beside the  *)
(* call start_trading makes for a symbol without a worker, a caller on the *)
(* main thread subscribes a code that has a subscription (the case lines   *)
(* 203-204 of the method provide for).                                     *)
(***************************************************************************)
SubscribeAgain(code) ==
  /\ main.pc = "idle"
  /\ code \in DOMAIN realtime_subscribers
  /\ main' = [main EXCEPT !.pc = "st_sub", !.code = code,
                          !.worker = realtime_subscribers[code]]
  /\ UNCHANGED << budget, now, is_initialized, com_lock, sub_lock,
                  realtime_subscribers, gw, feed_seq, faults, trade_signals,
                  strategy_data, is_auto_trading_active, workers, tw >>

GatewayNext ==
  \/ Next
  \/ \E c \in Codes : SubscribeAgain(c)

GatewaySpec == LiveInit /\ [][GatewayNext]_vars

(***************************************************************************)
(* The properties.                                                         *)
(***************************************************************************)
\* the worker exists and its run() has not returned
Alive(e) == tw[e].pc \notin {"none", "stopped", "crashed"}

\* the worker is inside place_order for a buy / for a sale
SubmitsBuy(e) == tw[e].pc = "buy_order" /\ tw[e].call = "in"
SubmitsSell(e) ==
  tw[e].pc \in {"sell_order", "trail_order"} /\ tw[e].call = "in"

\* the worker is examining the rules of a tick
Evaluating(e) ==
  tw[e].pc \in {"buy", "sell", "buy_order", "sell_order", "trail_order"}

\* the main thread is inside stop_trading
Stopping == main.pc \in {"sp_loop", "sp_unsub", "sp_stop", "sp_join"}

\* C1: after any sequence of start_trading / stop_trading calls, a
\* stop_trading whose wait(2000) timed out included, every symbol has at
\* most one worker whose loop has not exited.
C1_OneEnginePerSymbol ==
  \A c \in Codes :
    Cardinality({ e \in Engines : Alive(e) /\ tw[e].code = c }) <= 1

\* C2: a worker started for a symbol whose SymbolConfig has buy_flag = false
\* never submits a buy order, and a worker for a symbol whose sell_flag =
\* false never submits a sell order.
C2_DisabledSideNeverTrades ==
  \A e \in Engines :
    /\ SubmitsBuy(e) => tw[e].arg_buy_flag
    /\ SubmitsSell(e) => tw[e].arg_sell_flag

\* C3: a worker submits a buy order only while its quantity_held is <= 0 and
\* a sell order only while its quantity_held is > 0, and one evaluated tick
\* runs the buy evaluation or the sell evaluation, never both.
C3_SideMatchesHolding ==
  \A e \in Engines :
    /\ SubmitsBuy(e) => tw[e].quantity_held <= 0
    /\ SubmitsSell(e) => tw[e].quantity_held > 0
    /\ Cardinality(tw[e].branches) <= 1

\* C4: whenever a successful sale of any rule (a trailing stop of any
\* sizing included) has emptied the position and the worker has read the
\* position back as 0, the worker requests its own stop.
C4_LiquidationRequestsStop ==
  [][ \A e \in Engines :
        ( /\ tw[e].pc \in {"sell_refresh", "trail_refresh"}
          /\ tw'[e].pc \notin {"sell_refresh", "trail_refresh"}
          /\ gw[tw[e].code].qty = 0
          /\ tw'[e].quantity_held = 0 )
        => tw'[e].stop_event ]_vars

\* C5: on every evaluated tick no rule placed after the first satisfied rule
\* is examined, whatever became of the first satisfied rule's order.
C5_StopsAtFirstSatisfied ==
  \A e \in Engines :
    tw[e].first_sat # 0 => tw[e].last_eval <= tw[e].first_sat

\* C6: on every evaluated tick a worker obtains at most one successful
\* order.
C6_OneFillPerTick == \A e \in Engines : tw[e].fills <= 1

\* C7: the tick a worker evaluates is the last one the feed has put on its
\* queue when the worker finds the queue empty, and every tick a worker
\* takes from its queue was put after every tick it took before: no tick is
\* evaluated twice and no tick dropped by a drain is evaluated later.
C7_TickCoalescing ==
  [][ \A e \in Engines :
        /\ ( tw[e].pc = "drain" /\ tw'[e].pc # "drain" )
             => ( tw[e].data.seq = tw[e].last_put
                  /\ tw'[e].data_queue = tw[e].data_queue
                  /\ tw[e].data_queue = << >> )
        /\ ( tw'[e].pc = "drain" /\ tw'[e].data.seq # tw[e].data.seq )
             => tw'[e].data.seq > tw[e].data.seq ]_vars

\* a worker evaluates a tick after it dropped an earlier one, while a tick
\* put since is waiting
C7_Witness ==
  \E e \in Engines :
    /\ tw[e].pc \in {"buy", "sell"}
    /\ tw[e].skipped >= 1
    /\ tw[e].data.seq >= 2
    /\ tw[e].data_queue # << >>

\* C8: no tick is taken for evaluation at a moment outside 09:00-15:30,
\* the tick that arrives during the wait of up to 1 second included (a
\* tick taken from the queue is evaluated at once, lines 1166-1173).
C8_OnlyInsideWindow ==
  [][ \A e \in Engines :
        ( tw[e].pc = "wait_tick" /\ tw'[e].pc = "drain" )
        => InWindow(now) ]_vars

\* C9: no two calls into the gateway are in progress at the same time.
C9_GatewaySerialized == Cardinality({ x \in Ctx : InGateway(x) }) <= 1

C11_StartFailsFast ==
  [][ /\ (main.pc = "idle" /\ main'.pc \in {"st_refused", "st_loop"}
           /\ (is_auto_trading_active \/ ~is_initialized))
        => main'.pc = "st_refused"
      /\ (main.pc = "st_refused" \/ main'.pc = "st_refused")
        => /\ main'.pc \in {"st_refused", "idle"}
           /\ { e \in Engines : tw'[e].pc # "none" } = Constructed
           /\ realtime_subscribers' = realtime_subscribers
           /\ workers' = workers
           /\ is_auto_trading_active' = is_auto_trading_active ]_vars

\* the call was refused while trading was active and workers were running
C11_Witness ==
  /\ main.pc = "st_refused"
  /\ is_auto_trading_active
  /\ is_initialized
  /\ workers # EmptyMap

(***************************************************************************)
(* C12: an engine never outlives its subscription: at every moment a       *)
(* worker whose run() has been started and has not returned has its code   *)
(* in realtime_subscribers.                                                *)
(***************************************************************************)
C12_EngineHasSubscription ==
  \A e \in Engines :
    (Alive(e) /\ tw[e].pc # "created")
      => tw[e].code \in DOMAIN realtime_subscribers

(***************************************************************************)
(* C14: a failing gateway query (quote, position, n-day high, n-day low)   *)
(* never ends an engine: no worker leaves run() through an exception of a  *)
(* query.                                                                  *)
(***************************************************************************)
C14_QueryFailureNeverEndsEngine ==
  \A e \in Engines : tw[e].pc # "crashed"

C16_PeakRatchet ==
  [][ \A e \in Engines :
        /\ (tw[e].trailing_stop_active /\ tw'[e].trailing_stop_active)
             => tw'[e].trailing_peak_price >= tw[e].trailing_peak_price
        /\ ( /\ tw[e].pc = "sell"
             /\ tw[e].trailing_stop_active
             /\ tw[e].idx <= Len(sell_strategies(e))
             /\ sell_strategies(e)[tw[e].idx].strategy = "TrailingStop"
             /\ \/ tw'[e].last_eval = tw[e].idx /\ tw[e].last_eval < tw[e].idx
                \/ tw'[e].pc = "loop_top" )
             => tw'[e].trailing_peak_price >= tw[e].data.current_price ]_vars

\* an armed worker has just examined its first rule, a TrailingStop, on a
\* later tick at 110 and holds that price as its peak
C16_Witness ==
  \E e \in Engines :
    /\ tw[e].pc = "sell"
    /\ tw[e].trailing_stop_active
    /\ tw[e].last_eval = 1
    /\ sell_strategies(e)[1].strategy = "TrailingStop"
    /\ tw[e].data.seq >= 2
    /\ tw[e].data.current_price = 110
    /\ tw[e].trailing_peak_price = 110

(***************************************************************************)
(* C17: a trailing-stop order is placed only by an armed worker on a tick  *)
(* at or below peak * (1 - trail_pct / 100); the stop is armed only on a   *)
(* tick at or above base * (1 + raise_pct / 100); and no trailing-stop     *)
(* order is placed on the tick that set the base or on the tick that armed *)
(* the stop, however many TrailingStop rules the sell list holds.          *)
(***************************************************************************)
C17_TrailingOrderOnlyAfterArmedTick ==
  [][ \A e \in Engines :
        LET w == tw[e]
            cur == w.data.current_price
        IN /\ (w.pc = "sell" /\ tw'[e].pc = "trail_order")
                => /\ w.trailing_stop_active
                   /\ cur * 100 <= w.trailing_peak_price
                                     * (100 - sell_strategies(e)[w.idx].trail_pct)
                   /\ w.trail_marks = {}
           /\ (w.pc = "sell" /\ ~w.trailing_stop_active
                 /\ tw'[e].trailing_stop_active)
                => /\ w.trailing_base_price_met
                   /\ cur * 100 >= w.trailing_peak_price
                                     * (100 + sell_strategies(e)[w.idx].raise_pct)
    ]_vars

(***************************************************************************)
(* C18: the n-day caches are recomputed again once 5 minutes of wall-clock *)
(* time have passed since the last recomputation, the calendar date being  *)
(* the same: a worker that comes to the refresh trigger inside the window, *)
(* 5 minutes or more after its last pass, starts a pass.                   *)
(***************************************************************************)
C18_RecomputedAfterFiveMinutes ==
  [][ \A e \in Engines :
        ( /\ tw[e].pc = "loop_top"
          /\ tw'[e].pc \in {"wait_tick", "refresh_high"}
          /\ InWindow(now) /\ RefreshDue(now)
          /\ tw[e].aged )
          => tw'[e].pc = "refresh_high" ]_vars

C20_NDayHighIffAboveCachedHigh ==
  [][ \A e \in Engines :
        LET w == tw[e]
            list == buy_strategies(e)
            p == w.data.current_price
        IN ( /\ w.pc = "buy"
             /\ w.idx <= Len(list)
             /\ list[w.idx].strategy = "NDayHigh"
             /\ p > 0
             /\ w.first_sat = 0
             /\ w.last_eval < w.idx
             /\ tw'[e].last_eval = w.idx )
             => ( tw'[e].first_sat = w.idx
                    <=> /\ list[w.idx].param \in DOMAIN w.nday_high_targets
                        /\ p > w.nday_high_targets[list[w.idx].param] )
    ]_vars

\* a tick at exactly the cached high has been examined and the rule was
\* found not satisfied
C20_Witness ==
  \E e \in Engines :
    /\ tw[e].pc = "buy"
    /\ tw[e].last_eval = 1
    /\ tw[e].first_sat = 0
    /\ buy_strategies(e)[1].strategy = "NDayHigh"
    /\ buy_strategies(e)[1].param \in DOMAIN tw[e].nday_high_targets
    /\ tw[e].nday_high_targets[buy_strategies(e)[1].param]
         = tw[e].data.current_price

(***************************************************************************)
(* C13: a worker inside run() whose stop flag is set eventually leaves     *)
(* run(), given that every gateway call returns: inside and outside the    *)
(* trading window, with and without ticks on its queue; and a worker that  *)
(* has left run() never runs again.                                        *)
(***************************************************************************)
C13_StopReachesStopped ==
  /\ \A e \in Engines :
       (Alive(e) /\ tw[e].pc # "created" /\ tw[e].stop_event) ~> Finished(e)
  /\ [][ \A e \in Engines : Finished(e) => tw'[e].pc = tw[e].pc ]_vars

\* a worker that was told to stop while it waited for a tick inside the
\* trading window has left run()
C13_Witness ==
  \E e \in Engines :
    /\ tw[e].pc = "stopped"
    /\ tw[e].stop_event
    /\ InWindow(now)
    /\ feed_seq >= 1

(***************************************************************************)
(* C21: while a position is held (quantity > 0, average price >= 0) a sell *)
(* rule that is not a trailing stop is found satisfied on a tick exactly   *)
(* when its definition holds: PriceBreach when price <= target,            *)
(* ProfitTarget when (price - avg) / avg * 100 >= pct, StopLoss when       *)
(* (avg - price) / avg * 100 >= pct (both for avg > 0, where the quotient  *)
(* exists), NDayLow when a low is cached for n and price < that low.       *)
(***************************************************************************)
C21_SellRuleEqualsDefinition ==
  [][ \A e \in Engines :
        LET w == tw[e]
            list == sell_strategies(e)
            p == w.data.current_price
            avg == w.avg_buy_price
        IN ( /\ w.pc = "sell"
             /\ w.idx <= Len(list)
             /\ list[w.idx].strategy # "TrailingStop"
             /\ w.quantity_held > 0
             /\ avg >= 0
             /\ w.first_sat = 0
             /\ w.last_eval < w.idx
             /\ tw'[e].last_eval = w.idx )
           => LET cfg == list[w.idx]
                  found == tw'[e].first_sat = w.idx
              IN CASE cfg.strategy = "PriceBreach" ->
                        found <=> p <= cfg.param
                   [] cfg.strategy = "ProfitTarget" ->
                        avg > 0 =>
                          (found <=> (p - avg) * 100 >= cfg.param * avg)
                   [] cfg.strategy = "StopLoss" ->
                        avg > 0 =>
                          (found <=> (avg - p) * 100 >= cfg.param * avg)
                   [] cfg.strategy = "NDayLow" ->
                        found <=> /\ cfg.param \in DOMAIN w.nday_low_targets
                                  /\ p < w.nday_low_targets[cfg.param]
                   [] OTHER -> TRUE
    ]_vars

(***************************************************************************)
(* C22: the quantity of every order a rule submits is the reference        *)
(* quantity, and it is > 0: for a buy the floor of amount / price (20 for  *)
(* 1,000,000 at 50,000); for a sale the floor of held * p / 100 under      *)
(* Percent (16 for 33 shares at 50 %), the floor of value / price under    *)
(* Cash, and the held quantity under Full.  q is the floor of a / b when   *)
(* q * b <= a < (q + 1) * b.                                               *)
(***************************************************************************)
C22_OrderSizeIsReference ==
  [][ \A e \in Engines :
        LET w == tw[e]
            p == w.data.current_price
            q == tw'[e].qty
        IN /\ (w.pc = "buy" /\ tw'[e].pc = "buy_order")
                => LET cfg == buy_strategies(e)[w.idx]
                   IN /\ q > 0
                      /\ q * p <= cfg.amount
                      /\ cfg.amount < (q + 1) * p
           /\ (w.pc = "sell" /\ tw'[e].pc \in {"sell_order", "trail_order"})
                => LET cfg == sell_strategies(e)[w.idx]
                       held == w.quantity_held
                   IN /\ q > 0
                      /\ cfg.method = "Percent"
                           => /\ q * 100 <= held * cfg.value
                              /\ held * cfg.value < (q + 1) * 100
                      /\ cfg.method = "Cash"
                           => /\ q * p <= cfg.value
                              /\ cfg.value < (q + 1) * p
                      /\ cfg.method = "Full" => q = held
    ]_vars

\* a buy rule with amount 1,000,000 has submitted an order of 20 shares at
\* price 50,000
C22_Witness ==
  \E e \in Engines :
    /\ tw[e].pc = "buy_order"
    /\ buy_strategies(e)[tw[e].idx].amount = 1000000
    /\ tw[e].data.current_price = 50000
    /\ tw[e].qty = 20

(***************************************************************************)
(* C23: the state of a running worker (held quantity, average price,       *)
(* trailing-stop state, caches of n-day targets) is written by that        *)
(* worker's thread alone: a step of the main thread leaves it unchanged.   *)
(***************************************************************************)
C23_OnlyTheWorkerWritesItsState ==
  [][ \A e \in Engines :
        (Alive(e) /\ tw[e].pc # "created" /\ main' # main)
          => /\ tw'[e].quantity_held = tw[e].quantity_held
             /\ tw'[e].avg_buy_price = tw[e].avg_buy_price
             /\ tw'[e].trailing_stop_active = tw[e].trailing_stop_active
             /\ tw'[e].trailing_peak_price = tw[e].trailing_peak_price
             /\ tw'[e].trailing_base_price_met
                  = tw[e].trailing_base_price_met
             /\ tw'[e].nday_high_targets = tw[e].nday_high_targets
             /\ tw'[e].nday_low_targets = tw[e].nday_low_targets
    ]_vars

(***************************************************************************)
(* C24: when place_order returns False (for a buy, an ordinary sale or a   *)
(* trailing-stop sale) the worker's held quantity, average price and       *)
(* trailing-stop state (an armed stop stays armed at the same peak) stay   *)
(* as they are, no trade_signal is emitted, the account is unchanged, the  *)
(* stop flag is not set and the worker stays in its loop.                  *)
(***************************************************************************)
C24_FailedOrderChangesNothing ==
  [][ \A e \in Engines :
        ( /\ tw[e].pc \in {"buy_order", "sell_order", "trail_order"}
          /\ tw[e].call = "in"
          /\ tw'[e].call = "no"
          /\ tw'[e].pc \notin {"buy_refresh", "sell_refresh",
                               "trail_refresh"} )
          => /\ tw'[e].quantity_held = tw[e].quantity_held
             /\ tw'[e].avg_buy_price = tw[e].avg_buy_price
             /\ tw'[e].trailing_stop_active = tw[e].trailing_stop_active
             /\ tw'[e].trailing_peak_price = tw[e].trailing_peak_price
             /\ tw'[e].trailing_base_price_met
                  = tw[e].trailing_base_price_met
             /\ tw'[e].stop_event = tw[e].stop_event
             /\ tw'[e].pc \in {"buy", "sell", "loop_top"}
             /\ trade_signals' = trade_signals
             /\ gw' = gw
    ]_vars

\* the order of an armed trailing stop that sells the whole position (rule
\* 2, Percent 100) was refused on this tick: the worker is at the next rule,
\* still armed, with no fill
C24_Witness ==
  \E e \in Engines :
    /\ tw[e].pc = "sell"
    /\ tw[e].idx = 3
    /\ tw[e].last_eval = 2
    /\ tw[e].first_sat = 2
    /\ tw[e].fills = 0
    /\ sell_strategies(e)[2].strategy = "TrailingStop"
    /\ sell_strategies(e)[2].method = "Percent"
    /\ sell_strategies(e)[2].value = 100
    /\ tw[e].trailing_stop_active
    /\ tw[e].quantity_held > 0
    /\ ~tw[e].stop_event

(***************************************************************************)
(* C25: once the stop flag of a worker is set, the worker decides on no    *)
(* further order: it does not go from the examination of a rule to         *)
(* place_order.  (An order whose place_order call had begun when the flag  *)
(* was set is not a new one.)                                              *)
(***************************************************************************)
C25_NoNewOrderAfterStop ==
  [][ \A e \in Engines :
        ( /\ tw[e].stop_event
          /\ tw[e].pc \in {"buy", "sell"} )
          => tw'[e].pc \notin {"buy_order", "sell_order", "trail_order"}
    ]_vars

(***************************************************************************)
(* C26: when a worker has read back its position after a filled buy, its   *)
(* trailing stop is not initialised: no base, not armed, peak 0; and the   *)
(* first trailing-stop rule examined for a worker in that state sets the   *)
(* base and submits no order.                                              *)
(***************************************************************************)
C26_BuyResetsTrailingStop ==
  [][ \A e \in Engines :
        /\ (tw[e].pc = "buy_refresh" /\ tw'[e].pc # "buy_refresh")
             => /\ ~tw'[e].trailing_base_price_met
                /\ ~tw'[e].trailing_stop_active
                /\ tw'[e].trailing_peak_price = 0
        /\ ( /\ tw[e].pc = "sell"
             /\ ~tw[e].trailing_base_price_met
             /\ tw[e].idx <= Len(sell_strategies(e))
             /\ sell_strategies(e)[tw[e].idx].strategy = "TrailingStop"
             /\ tw'[e].last_eval = tw[e].idx
             /\ tw[e].last_eval < tw[e].idx )
             => /\ tw'[e].trailing_base_price_met
                /\ ~tw'[e].trailing_stop_active
                /\ tw'[e].pc # "trail_order"
    ]_vars

\* a worker whose trailing stop is armed, from the position it has sold,
\* is about to store the position of a filled buy
C26_Witness ==
  \E e \in Engines :
    /\ tw[e].pc = "buy_refresh"
    /\ tw[e].call = "read"
    /\ tw[e].fills = 1
    /\ tw[e].trailing_stop_active
    /\ tw[e].trailing_peak_price > 0
    /\ tw[e].res[1] > 0

(***************************************************************************)
(* C27: the quantity of an order to sell (of an ordinary sell rule or of a *)
(* trailing stop) that a worker submits is at most the quantity the worker *)
(* holds, under every sizing method, price and configured value.           *)
(***************************************************************************)
C27_SellQtyAtMostHeld ==
  \A e \in Engines :
    (tw[e].pc \in {"sell_order", "trail_order"} /\ tw[e].call = "no")
      => tw[e].qty <= tw[e].quantity_held

(***************************************************************************)
(* C28: a tick whose price is 0 leads to no order: a worker that evaluates *)
(* such a tick does not reach place_order, for a buy rule, a sell rule or  *)
(* a trailing stop.                                                        *)
(***************************************************************************)
C28_NoOrderAtPriceZero ==
  \A e \in Engines :
    tw[e].pc \in {"buy_order", "sell_order", "trail_order"}
      => tw[e].data.current_price # 0

(***************************************************************************)
(* C29: start_trading leaves the configuration it is called with as it     *)
(* was: no step of it changes the SymbolConfig of a symbol (buy_flag,      *)
(* sell_flag, on, buy rules, sell rules) in the caller's strategy_data.    *)
(***************************************************************************)
C29_StartKeepsConfiguration ==
  [][ main.pc \in {"idle", "st_loop", "st_sub"}
        => strategy_data' = strategy_data ]_vars

(***************************************************************************)
(* C30: a call of subscribe_realtime returns, also for a code that has a   *)
(* subscription: the caller is never inside the method waiting for the     *)
(* sub_lock that it holds itself, a wait that no step ends.                *)
(***************************************************************************)
C30_SubscribeReturns ==
  ~( /\ main.pc = "st_sub"
     /\ main.call = "blocked"
     /\ Main \in sub_lock )

====
